---- MODULE Spec2Model ----
(***************************************************************************)
(* Model of the langedge client library: the job batcher and the           *)
(* concurrent batch operations of langedge.api.Job, the order request      *)
(* body built by Job._order, and the request signer Credential.sign.       *)
(*                                                                         *)
(* Python values are modelled as strings ("None", "False", "0", ...) so    *)
(* that values of different Python types can be compared; text that the    *)
(* code builds or converts (decimal timestamps, job_<i> keys, hex digests) *)
(* is a sequence of one-character strings.                                 *)
(***************************************************************************)
EXTENDS Integers, Sequences, FiniteSets, TLC

\* ------------------------------------------------------------- bounds ---
MaxJobs == 5          \* longest job list walked by the batcher (SpecWalk)
MaxBatchJobs == 3     \* longest job / order id list of a batch call (Spec)
MaxChunkSize == 3     \* largest max_chunk_size of the contiguous range
MaxNegSize == 1       \* the most negative max_chunk_size is -MaxNegSize
MaxTicks == 3         \* clock ticks (half seconds) after the start (SpecSign)
MaxParams == 2        \* most entries of a params mapping given to sign

\* ---------------------------------------------------- program constants ---
DefaultMaxChunkSize == 50

VARIABLES
    op,                      \* the batch operation being called
    jobs,                    \* batch_order: the jobs argument
    order_ids,               \* batch_list_order_jobs: the order_ids argument
    max_chunk_size,          \* batch_order: the max_chunk_size argument
    pc,                      \* position of the call
    idx,                     \* index of the next job of `for job in jobs`
    chunks,                  \* _batch_order: chunks
    chunk,                   \* _batch_order: chunk
    previous_qualification,  \* _batch_order: previous_qualification
    requests,                \* the coroutines given to asyncio.as_completed
    task,                    \* state of the task of every request
    posts,                   \* HTTP requests sent, per request
    done,                    \* the tasks in the order they completed
    taken,                   \* how many completed tasks the caller consumed
    results,                 \* the list built by the comprehension
    raised,                  \* the task whose error the call raised, or 0
    credential,              \* the Credential object
    clock,                   \* wall clock, in half seconds
    callerParams,            \* the params dict the caller holds
    lastSign,                \* the last call of Credential.sign
    prevSign                 \* ts and api_sig of the call before it

batchVars == <<op, jobs, order_ids, max_chunk_size, pc, idx, chunks, chunk,
               previous_qualification, requests, task, posts, done, taken,
               results, raised>>
signVars == <<credential, clock, callerParams, lastSign, prevSign>>
vars == <<batchVars, signVars>>

\* ------------------------------------------------------------ helpers ---
Last(s) == s[Len(s)]

RECURSIVE Flatten(_)
Flatten(ss) == IF ss = <<>> THEN <<>> ELSE Head(ss) \o Flatten(Tail(ss))

SeqsUpTo(S, n) == UNION {[1..k -> S] : k \in 0..n}

DigitChars == <<"0", "1", "2", "3", "4", "5", "6", "7", "8", "9">>

\* str(n) / '{}'.format(n) for a non-negative int: its decimal digits
RECURSIVE ToDecimal(_)
ToDecimal(n) ==
    IF n < 10 THEN <<DigitChars[n + 1]>>
    ELSE Append(ToDecimal(n \div 10), DigitChars[(n % 10) + 1])

\* ------------------------------------------------ langedge.models ---
LanguageCode == {"LanguageCode.en", "LanguageCode.ja"}
Tier == {"Tier.standard", "Tier.pro"}
JobType == {"JobType.text"}

\* langedge.models.request.Job.__init__: the attributes of a job request
JobInit(job_type, slug, body_src, lc_src, lc_tgt, tier, auto_approve, comment, callback_url, custom_data, force, use_preferred) ==
    [job_type |-> job_type, slug |-> slug, body_src |-> body_src,
     lc_src |-> lc_src, lc_tgt |-> lc_tgt, tier |-> tier,
     auto_approve |-> auto_approve, comment |-> comment,
     callback_url |-> callback_url, custom_data |-> custom_data,
     force |-> force, use_preferred |-> use_preferred]

\* DictMixin.to_dict: the attributes whose value is not None
Mut_to_dict(job) ==
    [key \in {k \in DOMAIN job : job[k] \notin {"None", "False", "0", ""}}
        |-> job[key]]
to_dict(job) ==
    [key \in {k \in DOMAIN job : job[k] # "None"} |-> job[key]]

\* ------------------------------------------------------- the batcher ---
\* qualification = (job.lc_src, job.lc_tgt, job.tier)
Mut_Qualification(job) == <<job.lc_src, job.lc_tgt, "None">>
Qualification(job) == <<job.lc_src, job.lc_tgt, job.tier>>

\* the condition that starts a new chunk
Mut_IsBoundary(qualification, previous, current, size) ==
    qualification # previous \/ Len(current) > size
Mut_IsBoundaryEager(qualification, previous, current, size) ==
    qualification # previous \/ Len(current) >= 1
IsBoundary(qualification, previous, current, size) ==
    qualification # previous \/ Len(current) = size

\* if chunk: chunks.append(chunk)
Mut_CloseChunk(chs, ch) == IF Len(ch) > 1 THEN Append(chs, ch) ELSE chs
CloseChunk(chs, ch) == IF ch # <<>> THEN Append(chs, ch) ELSE chs

\* one iteration of `for job in jobs`
WalkStep ==
    /\ pc = "walk"
    /\ idx <= Len(jobs)
    /\ LET job == jobs[idx]
           qualification == Qualification(job)
           boundary == IsBoundary(qualification, previous_qualification,
                                  chunk, max_chunk_size)
       IN  /\ previous_qualification' =
                 IF boundary THEN qualification ELSE previous_qualification
           /\ chunks' = IF boundary THEN CloseChunk(chunks, chunk) ELSE chunks
           /\ chunk' = Append(IF boundary THEN <<>> ELSE chunk, job)
    /\ idx' = idx + 1
    /\ UNCHANGED <<op, jobs, order_ids, max_chunk_size, pc, requests, task,
                   posts, done, taken, results, raised, signVars>>

\* the loop is over: the trailing chunk is closed
WalkEnd ==
    /\ pc = "walk"
    /\ idx > Len(jobs)
    /\ chunks' = CloseChunk(chunks, chunk)
    /\ pc' = "create"
    /\ UNCHANGED <<op, jobs, order_ids, max_chunk_size, idx, chunk,
                   previous_qualification, requests, task, posts, done,
                   taken, results, raised, signVars>>

\* ------------------------------------------------ the order request ---
EnumName ==
    ("JobType.text" :> "text") @@
    ("LanguageCode.en" :> "en") @@ ("LanguageCode.ja" :> "ja") @@
    ("Tier.standard" :> "standard") @@ ("Tier.pro" :> "pro")

\* EnumEncoder.default and json.dumps on one value
JsonValue(value) ==
    IF value \in DOMAIN EnumName THEN EnumName[value]
    ELSE IF value = "True" THEN "true"
    ELSE IF value = "False" THEN "false"
    ELSE value

\* dump_json on the body of an order
dump_json(source) ==
    [jobs |-> [key \in DOMAIN source.jobs |->
                  [f \in DOMAIN source.jobs[key] |->
                      JsonValue(source.jobs[key][f])]]]

\* 'job_{}'.format(i)
JobKey(i) == <<"j", "o", "b", "_">> \o ToDecimal(i)

\* {'jobs': {'job_{}'.format(i): job.to_dict() for i, job in enumerate(jobs)}}
\* (a dict comprehension keeps the last value written under a key)
OrderBody(js) ==
    LET indexes == 0..(Len(js) - 1)
        last(key) == CHOOSE i \in indexes :
                        /\ JobKey(i) = key
                        /\ \A j \in indexes : JobKey(j) = key => j <= i
    IN  [jobs |-> [key \in {JobKey(i) : i \in indexes} |->
                      to_dict(js[last(key) + 1])]]

\* Job._order: the coroutine of one POST translate/jobs
_order(js) ==
    [method |-> "POST", path |-> <<"j", "o", "b", "s">>,
     payload |-> OrderBody(js), data |-> dump_json(OrderBody(js))]

\* Job._list_order_jobs: the coroutine of one GET translate/order/<id>
_list_order_jobs(order_id) ==
    [method |-> "GET",
     path |-> <<"o", "r", "d", "e", "r", "/">> \o ToDecimal(order_id),
     payload |-> "None", data |-> "None"]

\* [self._order(jobs) for jobs in chunks]
Mut_OrderCoroutines(chs) ==
    [i \in 1..(Len(chs) - 1) |-> _order(chs[i])]
OrderCoroutines(chs) == [i \in 1..Len(chs) |-> _order(chs[i])]

\* [self._list_order_jobs(order_id) for order_id in order_ids]
ListCoroutines(ids) == [i \in 1..Len(ids) |-> _list_order_jobs(ids[i])]

\* ------------------------------------------- the concurrent requests ---
\* what model.from_response gives for the response to request i
Response(i) ==
    [request |-> i,
     model |-> IF op = "batch_order" THEN "OrderResult" ELSE "Order"]

\* asyncio.as_completed hands out the tasks in the order they completed
Mut_NextCompleted(completed, consumed) ==
    completed[Len(completed) - consumed]
NextCompleted(completed, consumed) == completed[consumed + 1]

\* `yield from f` raises the exception of a failed task
Mut_TaskRaises(state) == FALSE
TaskRaises(state) == state = "error"

\* the coroutines are built and handed to asyncio.as_completed, which makes
\* one task of each; with no coroutine the comprehension ends at once
CreateRequests ==
    /\ pc = "create"
    /\ requests' = IF op = "batch_order" THEN OrderCoroutines(chunks)
                   ELSE ListCoroutines(order_ids)
    /\ task' = [i \in DOMAIN requests' |-> "pending"]
    /\ posts' = [i \in DOMAIN requests' |-> 0]
    /\ pc' = IF Len(requests') = 0 THEN "returned" ELSE "gather"
    /\ UNCHANGED <<op, jobs, order_ids, max_chunk_size, idx, chunks, chunk,
                   previous_qualification, done, taken, results, raised,
                   signVars>>

\* API._request in the task of request i: urlopen blocks, so the request is
\* sent and answered in one step of the event loop; the tasks are started in
\* the iteration order of a set, which is any order
RunRequest(i, outcome) ==
    /\ pc = "gather"
    /\ task[i] = "pending"
    /\ posts' = [posts EXCEPT ![i] = @ + 1]
    /\ task' = [task EXCEPT ![i] = outcome]
    /\ done' = Append(done, i)
    /\ UNCHANGED <<op, jobs, order_ids, max_chunk_size, pc, idx, chunks,
                   chunk, previous_qualification, requests, taken, results,
                   raised, signVars>>

RequestSucceeds == \E i \in DOMAIN task : RunRequest(i, "ok")
RequestFails == \E i \in DOMAIN task : RunRequest(i, "error")

\* one `(yield from f)` of the comprehension: the next completed task is
\* taken; its result is appended, or its exception leaves the call
Collect ==
    /\ pc = "gather"
    /\ taken < Len(done)
    /\ LET i == NextCompleted(done, taken)
       IN  IF TaskRaises(task[i])
           THEN /\ pc' = "raised"
                /\ raised' = i
                /\ UNCHANGED results
           ELSE /\ results' = Append(results, Response(i))
                /\ pc' = IF Len(results') = Len(requests)
                         THEN "returned" ELSE "gather"
                /\ UNCHANGED raised
    /\ taken' = taken + 1
    /\ UNCHANGED <<op, jobs, order_ids, max_chunk_size, idx, chunks, chunk,
                   previous_qualification, requests, task, posts, done,
                   signVars>>

\* --------------------------------------------------------- the signer ---
\* the code points of the characters of keys and timestamps
Ord ==
    ("0" :> 48) @@ ("1" :> 49) @@ ("2" :> 50) @@ ("3" :> 51) @@
    ("4" :> 52) @@ ("5" :> 53) @@ ("6" :> 54) @@ ("7" :> 55) @@
    ("8" :> 56) @@ ("9" :> 57) @@ ("k" :> 107) @@ ("p" :> 112)

\* str.encode()
Encode(text) == [i \in 1..Len(text) |-> Ord[text[i]]]

HexChars == <<"0", "1", "2", "3", "4", "5", "6", "7", "8", "9",
              "a", "b", "c", "d", "e", "f">>

RECURSIVE Mix(_, _)
Mix(h, bytes) ==
    IF bytes = <<>> THEN h
    ELSE Mix((h * 31 + Head(bytes)) % 256, Tail(bytes))

\* hmac.new(key, msg, hashlib.sha1).hexdigest(): the digest is the standard
\* library's; it is abstracted to a keyed one-byte digest of the same shape
\* (inner and outer pass over the key, lowercase hex output)
HmacSha1Hex(key, msg) ==
    LET inner == Mix(Mix(54, key), msg)
        outer == Mix(Mix(92, key), <<inner>>)
    IN  <<HexChars[(outer \div 16) + 1], HexChars[(outer % 16) + 1]>>

\* Credential.__init__
CredentialInit(url, public_key, private_key) ==
    [url |-> url, public_key |-> public_key,
     private_key |-> Encode(private_key)]

SignedKeys == {"api_key", "ts", "api_sig"}

\* Credential.sign at clock `now` (half seconds): dict(api_key=..., ts=...,
\* api_sig=..., **params) raises TypeError when params repeats a keyword
Mut_sign(self, params, now) ==
    LET timestamp == ToDecimal(now \div 2)
    IN  IF DOMAIN params \cap SignedKeys # {}
        THEN [status |-> "TypeError"]
        ELSE [status |-> "ok",
              value |-> [k \in DOMAIN params \cup SignedKeys |->
                  IF k = "api_key" THEN self.public_key
                  ELSE IF k = "ts" THEN timestamp
                  ELSE IF k = "api_sig"
                       THEN HmacSha1Hex(self.private_key,
                                Encode(timestamp \o
                                    IF params = <<>> THEN <<>> ELSE <<"p">>))
                  ELSE params[k]]]
sign(self, params, now) ==
    LET timestamp == ToDecimal(now \div 2)
    IN  IF DOMAIN params \cap SignedKeys # {}
        THEN [status |-> "TypeError"]
        ELSE [status |-> "ok",
              value |-> [k \in DOMAIN params \cup SignedKeys |->
                  IF k = "api_key" THEN self.public_key
                  ELSE IF k = "ts" THEN timestamp
                  ELSE IF k = "api_sig"
                       THEN HmacSha1Hex(self.private_key, Encode(timestamp))
                  ELSE params[k]]]

ParamKeys == {"page", "ts", "api_key"}
ParamValues == {<<"1">>, <<"2", "0">>}
ParamMappings ==
    UNION {[S -> ParamValues] :
              S \in {T \in SUBSET ParamKeys : Cardinality(T) <= MaxParams}}

StartClocks == {0, 18}

\* time passes
Tick ==
    /\ \E start \in StartClocks : clock - start \in 0..(MaxTicks - 1)
    /\ clock' = clock + 1
    /\ UNCHANGED <<batchVars, credential, callerParams, lastSign, prevSign>>

\* the caller builds the params of its next request
BuildParams ==
    /\ \E params \in ParamMappings :
          /\ params # callerParams
          /\ callerParams' = params
    /\ UNCHANGED <<batchVars, credential, clock, lastSign, prevSign>>

\* the caller calls credential.sign(params)
Sign ==
    /\ LET signed == sign(credential, callerParams, clock)
       IN  lastSign' = IF signed.status = "ok"
                       THEN [status |-> "ok", params |-> callerParams,
                             at |-> clock, value |-> signed.value]
                       ELSE [status |-> signed.status,
                             params |-> callerParams, at |-> clock]
    /\ prevSign' = IF lastSign.status = "ok"
                   THEN <<lastSign.value.ts, lastSign.value.api_sig>>
                   ELSE prevSign
    /\ UNCHANGED <<batchVars, credential, clock, callerParams>>

\* ------------------------------------------------------------ inputs ---
Qualifications ==
    {<<"LanguageCode.en", "LanguageCode.ja", "Tier.standard">>,
     <<"LanguageCode.en", "LanguageCode.ja", "Tier.pro">>,
     <<"LanguageCode.ja", "LanguageCode.en", "Tier.standard">>}

\* one job per qualification, optional attributes left at their defaults
WalkPool ==
    {JobInit("JobType.text", "slug", "text", q[1], q[2], q[3], "True",
             "None", "None", "None", "False", "False") : q \in Qualifications}

ChunkSizes == ((0 - MaxNegSize)..MaxChunkSize) \cup {10, DefaultMaxChunkSize}

SignIdle ==
    /\ credential = CredentialInit("url", <<"p">>, <<"k">>)
    /\ clock = 0
    /\ callerParams = <<>>
    /\ lastSign = [status |-> "none"]
    /\ prevSign = <<>>

BatchStart ==
    /\ idx = 1
    /\ chunks = <<>>
    /\ chunk = <<>>
    /\ previous_qualification = <<"None", "None", "None">>
    /\ requests = <<>>
    /\ task = <<>>
    /\ posts = <<>>
    /\ done = <<>>
    /\ taken = 0
    /\ results = <<>>
    /\ raised = 0

\* jobs that differ in qualification and in which attributes are set
JobPool ==
    {JobInit("JobType.text", "a", "text", "LanguageCode.en",
             "LanguageCode.ja", "Tier.standard", "False", "None", "None",
             "0", "False", "False"),
     JobInit("JobType.text", "b", "text", "LanguageCode.en",
             "LanguageCode.ja", "Tier.pro", "True", "hi", "None", "None",
             "True", "False"),
     JobInit("JobType.text", "c", "", "LanguageCode.en",
             "LanguageCode.ja", "Tier.standard", "True", "None", "cb",
             "None", "False", "True")}

BatchChunkSizes == (0 - MaxNegSize)..MaxChunkSize

OrderIds == {7, 12}

\* ------------------------------------------------ the batch operations ---
Init ==
    /\ op \in {"batch_order", "batch_list_order_jobs"}
    /\ IF op = "batch_order"
       THEN /\ jobs \in SeqsUpTo(JobPool, MaxBatchJobs)
            /\ order_ids = <<>>
            /\ max_chunk_size \in BatchChunkSizes
            /\ pc = "walk"
       ELSE /\ jobs = <<>>
            /\ order_ids \in SeqsUpTo(OrderIds, MaxBatchJobs)
            /\ max_chunk_size = DefaultMaxChunkSize
            /\ pc = "create"
    /\ BatchStart
    /\ SignIdle

Next ==
    \/ WalkStep
    \/ WalkEnd
    \/ CreateRequests
    \/ RequestSucceeds
    \/ RequestFails
    \/ Collect

Spec == Init /\ [][Next]_vars

\* ------------------------------------------------ the signer on its own ---
InitSign ==
    /\ op = "sign"
    /\ jobs = <<>>
    /\ order_ids = <<>>
    /\ max_chunk_size = DefaultMaxChunkSize
    /\ pc = "idle"
    /\ BatchStart
    /\ credential \in {CredentialInit("url", <<"p">>, key) :
                          key \in {<<"k", "1">>, <<"k", "2">>}}
    /\ clock \in StartClocks
    /\ callerParams = <<>>
    /\ lastSign = [status |-> "none"]
    /\ prevSign = <<>>

NextSign == Tick \/ BuildParams \/ Sign

SpecSign == InitSign /\ [][NextSign]_vars

\* ------------------------------------------- the batcher on its own ---
InitWalk ==
    /\ op = "batch_order"
    /\ jobs \in SeqsUpTo(WalkPool, MaxJobs)
    /\ order_ids = <<>>
    /\ max_chunk_size \in ChunkSizes
    /\ pc = "walk"
    /\ BatchStart
    /\ SignIdle

NextWalk == WalkStep \/ WalkEnd

SpecWalk == InitWalk /\ [][NextWalk]_vars

\* ============================================================ claims ===
SameQualification(a, b) ==
    /\ a.lc_src = b.lc_src
    /\ a.lc_tgt = b.lc_tgt
    /\ a.tier = b.tier

Homogeneous(ch) ==
    \A i, j \in 1..Len(ch) : SameQualification(ch[i], ch[j])

Sizes(chs) == [i \in 1..Len(chs) |-> Len(chs[i])]

C2_ChunksHomogeneous ==
    (op = "batch_order" /\ max_chunk_size >= 1) =>
        /\ \A i \in 1..Len(chunks) : Homogeneous(chunks[i])
        /\ Homogeneous(chunk)

C2_Witness ==
    /\ pc = "walk"
    /\ max_chunk_size >= 2
    /\ Len(chunks) >= 1
    /\ Len(chunk) >= 2
    /\ Last(chunks)[1].lc_src = chunk[1].lc_src
    /\ Last(chunks)[1].lc_tgt = chunk[1].lc_tgt
    /\ Last(chunks)[1].tier # chunk[1].tier

\* C3: for max_chunk_size >= 1 every closed chunk holds between 1 and
\* max_chunk_size jobs and the open chunk never holds more; 5 jobs of one
\* qualification with max_chunk_size = 2 give chunks of sizes [2, 2, 1].
C3_ChunkSizeBounded ==
    (op = "batch_order" /\ max_chunk_size >= 1) =>
        /\ \A i \in 1..Len(chunks) :
              Len(chunks[i]) >= 1 /\ Len(chunks[i]) <= max_chunk_size
        /\ Len(chunk) <= max_chunk_size
        /\ (pc # "walk" /\ Len(jobs) = 5 /\ Homogeneous(jobs)
                /\ max_chunk_size = 2) => Sizes(chunks) = <<2, 2, 1>>

C3_Witness ==
    /\ pc = "create"
    /\ Len(jobs) = 5
    /\ Homogeneous(jobs)
    /\ max_chunk_size = 2
    /\ Len(chunks) = 3

\* C4: two adjacent chunks are separated by a change of qualification or by
\* the size limit; 3 jobs (en, ja, standard) followed by 2 jobs (en, ja, pro)
\* with max_chunk_size = 10 give chunks of sizes [3, 2].
C4_Example ==
    /\ Len(jobs) = 5
    /\ max_chunk_size = 10
    /\ \A i \in 1..5 :
          /\ jobs[i].lc_src = "LanguageCode.en"
          /\ jobs[i].lc_tgt = "LanguageCode.ja"
          /\ jobs[i].tier = IF i <= 3 THEN "Tier.standard" ELSE "Tier.pro"

C4_BoundariesJustified ==
    op = "batch_order" =>
        /\ \A i \in 1..(Len(chunks) - 1) :
              \/ ~SameQualification(Last(chunks[i]), chunks[i + 1][1])
              \/ Len(chunks[i]) = max_chunk_size
        /\ (pc = "walk" /\ chunks # <<>> /\ chunk # <<>>) =>
              \/ ~SameQualification(Last(Last(chunks)), chunk[1])
              \/ Len(Last(chunks)) = max_chunk_size
        /\ (pc # "walk" /\ C4_Example) => Sizes(chunks) = <<3, 2>>

C4_Witness ==
    /\ pc = "create"
    /\ C4_Example
    /\ Len(chunks) = 2

\* C5: batch_order with max_chunk_size <= 0 is signalled as an error before
\* any request is issued: such a call never sends an order request.
C5_NonPositiveSizeSignalled ==
    (op = "batch_order" /\ max_chunk_size <= 0) =>
        \A i \in DOMAIN posts : posts[i] = 0

\* C6: no request is sent more than once; when batch_order returns, there
\* is exactly one POST per chunk, each sent once and completed, one result
\* per chunk, and no request at all for an empty job list.
C6_OnePostPerChunk ==
    op = "batch_order" =>
        /\ \A i \in DOMAIN posts : posts[i] <= 1
        /\ pc \in {"gather", "returned", "raised"} =>
              /\ Len(requests) = Len(chunks)
              /\ \A i \in DOMAIN requests : requests[i].method = "POST"
        /\ pc = "returned" =>
              /\ \A i \in 1..Len(chunks) : posts[i] = 1 /\ task[i] = "ok"
              /\ Len(results) = Len(chunks)
              /\ \A i \in 1..Len(chunks) :
                    Cardinality({k \in 1..Len(results) :
                                    results[k].request = i}) = 1
              /\ jobs = <<>> => requests = <<>>

C6_Witness ==
    /\ op = "batch_order"
    /\ pc = "returned"
    /\ Len(chunks) = 3
    /\ max_chunk_size = 1

\* C7: the i-th element of the result list is the result of the i-th request
\* to complete, for both batch operations; a returned list holds the result
\* of every request once, in an order that may differ from the issue order.
C7_CompletionOrder ==
    /\ Len(results) <= Len(done)
    /\ \A k \in 1..Len(results) : results[k].request = done[k]
    /\ pc = "returned" =>
          /\ Len(results) = Len(requests)
          /\ {results[k].request : k \in 1..Len(results)} = DOMAIN requests

C7_Witness ==
    /\ op = "batch_list_order_jobs"
    /\ pc = "returned"
    /\ Len(results) = 3
    /\ results[1].request = 3
    /\ results[2].request = 1

FirstFailed ==
    done[CHOOSE k \in 1..Len(done) :
            /\ task[done[k]] = "error"
            /\ \A j \in 1..(k - 1) : task[done[j]] = "ok"]

\* C8: once a request of a batch operation has failed the call returns no
\* list; when the call fails, the error it raises is that of the first task
\* that failed; a failed request is not sent again and no value stands in
\* for its result.
C8_FirstFailurePropagates ==
    /\ (\E i \in DOMAIN task : task[i] = "error") => pc # "returned"
    /\ pc = "raised" =>
          /\ task[raised] = "error"
          /\ raised = FirstFailed
    /\ pc # "raised" => raised = 0
    /\ \A i \in DOMAIN task : task[i] = "error" => posts[i] = 1
    /\ \A k \in 1..Len(results) : task[results[k].request] = "ok"

C8_Witness ==
    /\ op = "batch_order"
    /\ pc = "raised"
    /\ Len(requests) = 3
    /\ Len(results) = 1
    /\ Cardinality({i \in DOMAIN task : task[i] = "error"}) = 2

JobAttributes ==
    {"job_type", "slug", "body_src", "lc_src", "lc_tgt", "tier",
     "auto_approve", "comment", "callback_url", "custom_data", "force",
     "use_preferred"}

\* C10: the body of the order request of a chunk of n jobs has exactly the
\* n keys job_0 .. job_(n-1) under 'jobs'; job_i holds the attributes of the
\* i-th job of the chunk whose value is not None, with their values (False
\* and 0 included); the keys start again at job_0 in every chunk.
C10_OrderBodySparse ==
    (op = "batch_order" /\ requests # <<>>) =>
        \A r \in 1..Len(requests) :
            LET js == chunks[r]
                body == requests[r].payload.jobs
                key(i) == <<"j", "o", "b", "_", DigitChars[i + 1]>>
            IN  /\ DOMAIN requests[r].payload = {"jobs"}
                /\ Cardinality(DOMAIN body) = Len(js)
                /\ \A i \in 0..(Len(js) - 1) :
                      /\ key(i) \in DOMAIN body
                      /\ DOMAIN body[key(i)] =
                            {a \in JobAttributes : js[i + 1][a] # "None"}
                      /\ \A a \in DOMAIN body[key(i)] :
                            body[key(i)][a] = js[i + 1][a]

C10_Witness ==
    /\ op = "batch_order"
    /\ Len(requests) = 2
    /\ LET first == requests[1].payload.jobs
           second == requests[2].payload.jobs
           job_0 == <<"j", "o", "b", "_", "0">>
           job_1 == <<"j", "o", "b", "_", "1">>
       IN  /\ DOMAIN first = {job_0, job_1}
           /\ DOMAIN second = {job_0}
           /\ first[job_0].custom_data = "0"
           /\ first[job_0].force = "False"
           /\ "comment" \notin DOMAIN first[job_0]
           /\ first[job_1].body_src = ""

RECURSIVE DecimalValue(_)
DecimalValue(digits) ==
    IF digits = <<>> THEN 0
    ELSE DecimalValue(SubSeq(digits, 1, Len(digits) - 1)) * 10
            + (CHOOSE d \in 0..9 : DigitChars[d + 1] = Last(digits))

SignedAsClaimed ==
    /\ lastSign.status = "ok"
    /\ DOMAIN lastSign.value = DOMAIN lastSign.params \cup SignedKeys
    /\ \A k \in DOMAIN lastSign.params \ SignedKeys :
          lastSign.value[k] = lastSign.params[k]
    /\ lastSign.value.api_key = credential.public_key
    /\ DecimalValue(lastSign.value.ts) * 2 \in {lastSign.at, lastSign.at - 1}
    /\ Len(lastSign.value.ts) > 1 => lastSign.value.ts[1] # "0"
    /\ lastSign.value.api_sig =
          HmacSha1Hex(credential.private_key, Encode(lastSign.value.ts))

SignFrame ==
    /\ credential' = credential
    /\ lastSign' # lastSign => callerParams' = callerParams

\* C9 as stated: for any params mapping sign returns params plus api_key,
\* ts and api_sig.
C9_SignAnyParams == lastSign.status # "none" => SignedAsClaimed

\* C9 as amended: for a params mapping without the keys api_key, ts and
\* api_sig, sign returns params plus api_key = public_key, ts = the unix time
\* in decimal and api_sig = HMAC-SHA1(private_key, ts) in hex; for a mapping
\* with one of those keys it raises TypeError; two calls with the same ts
\* give the same api_sig whatever the params; params and the credential are
\* left unchanged.
C9_SignAddsThreeEntries ==
    /\ [](lastSign.status # "none" =>
            /\ IF DOMAIN lastSign.params \cap SignedKeys = {}
               THEN SignedAsClaimed
               ELSE lastSign.status = "TypeError"
            /\ (lastSign.status = "ok" /\ prevSign # <<>>
                    /\ prevSign[1] = lastSign.value.ts) =>
                  prevSign[2] = lastSign.value.api_sig)
    /\ [][SignFrame]_vars

C9_Witness ==
    /\ lastSign.status = "ok"
    /\ DOMAIN lastSign.params = {"page"}
    /\ lastSign.value.ts = <<"1", "0">>
    /\ prevSign # <<>>
    /\ prevSign[1] = lastSign.value.ts
    /\ callerParams # lastSign.params

====
